---- MODULE Spec2Model ----
(***************************************************************************)
(* Merkle tree of src/src/crypto/merkle.rs: MerkleTree::new / build,       *)
(* MerkleTree::root, MerkleTree::proof and the free function verify.       *)
(*                                                                         *)
(* Digests are symbolic.  SHA-256 is modelled as a collision-free          *)
(* constructor: the digest of an item is the 1-tuple <<item>>, the digest  *)
(* of the concatenation of two digests is the 2-tuple <<h1, h2>>.  Two     *)
(* digests are equal exactly when they were computed from equal inputs.    *)
(* Option<T> is a sequence of length 0 (None) or 1 (Some).                 *)
(***************************************************************************)
EXTENDS Integers, Sequences, FiniteSets, TLC

\* ------------------------------------------------------------------ bounds
\* Longest slice handed to MerkleTree::new, and largest index handed to proof.
MaxLeaves == 4
\* Longest slice handed to MerkleTree::new when verify is driven with free inputs.
VerifyLeaves == 3
\* Longest free proof handed to verify.
MaxProofLen == 2
\* Number of nested build frames the call stack holds before it is exhausted.
StackLimit == 4

\* The items a slice may hold, and the two tree objects of a run.
Items == {"a", "b"}
TreeIds == {"A", "B"}

RECURSIVE SeqsUpTo(_, _)
SeqsUpTo(S, k) ==
    IF k = 0 THEN {<<>>}
    ELSE LET shorter == SeqsUpTo(S, k - 1)
         IN  shorter \cup {Append(s, x) : s \in {q \in shorter : Len(q) = k - 1}, x \in S}

\* ------------------------------------------------------------------ digests
\* Hashable::hash of an item (SHA-256 of its bytes).
Hash(item) == <<item>>

\* H256::from(digest(&SHA256, &[hash1, hash2].concat()))
HashConcat(hash1, hash2) == <<hash1, hash2>>

None == <<>>
Some(x) == <<x>>

\* ------------------------------------------------------------------ build
\* struct MerkleNode { key, left_child, right_child }
MerkleNode(key, left_child, right_child) ==
    [key |-> key, left_child |-> left_child, right_child |-> right_child]

\* The leaf MerkleTree::new makes of one datum.
Leaf(dt) == MerkleNode(Hash(dt), None, None)

\* Mutant of elem2: the unpaired last node is paired with its left neighbour.
elem2_neighbour(leaves, i, n, flag) ==
    IF flag /\ i = n - 1 THEN leaves[2 * i] ELSE leaves[2 * i + 2]

\* The right element of pair i (0-based) of a level: the last node of an
\* odd level is paired with a clone of itself.
elem2(leaves, i, n, flag) ==
    IF flag /\ i = n - 1 THEN leaves[2 * i + 1] ELSE leaves[2 * i + 2]

\* The parent build makes of pair i (0-based) of a level.
par(leaves, i, n, flag) ==
    LET e1 == leaves[2 * i + 1]
        e2 == elem2(leaves, i, n, flag)
    IN  MerkleNode(HashConcat(e1.key, e2.key), Some(e1), Some(e2))

\* build(leaves, leaf_size), in call-stack frame number depth.  The result is
\* Some(root), or None when the recursion exhausts the stack before it
\* returns.
RECURSIVE build(_, _, _)
build(leaves, leaf_size, depth) ==
    IF depth > StackLimit THEN None
    ELSE IF leaf_size = 1 THEN Some(leaves[1])
    ELSE LET flag == (leaf_size % 2 = 1)
             n == (IF flag THEN leaf_size + 1 ELSE leaf_size) \div 2
             new_leaves == [k \in 1..n |-> par(leaves, k - 1, n, flag)]
         IN  build(new_leaves, n, depth + 1)

\* MerkleTree::new(data): Some(tree), or None when build never returns.
MerkleTree_new(dt) ==
    LET leaf_size == Len(dt)
        leaves == [k \in 1..leaf_size |-> Leaf(dt[k])]
        r == build(leaves, leaf_size, 0)
    IN  IF r = None THEN None ELSE Some([root |-> r[1]])

\* MerkleTree::root(&self)
MerkleTree_root(tree) == tree.root.key

\* ------------------------------------------------------------------ proof
\* The do-while of proof: the bits of index, least significant first; at
\* least one bit.
RECURSIVE binary(_)
binary(n) ==
    <<n % 2>> \o (IF n \div 2 # 0 THEN binary(n \div 2) ELSE <<>>)

\* The for loop of proof from iteration i (1-based) on.  unwrap() of an absent
\* child panics.
RECURSIVE proof_walk(_, _, _, _)
proof_walk(current, bits, i, proof_vec) ==
    IF i > Len(bits) THEN [status |-> "ok", proof_vec |-> proof_vec]
    ELSE IF current.left_child = None \/ current.right_child = None
         THEN [status |-> "panic", proof_vec |-> <<>>]
    ELSE LET lc == current.left_child[1]
             rc == current.right_child[1]
         IN  IF bits[i] = 0
             THEN proof_walk(lc, bits, i + 1, Append(proof_vec, rc.key))
             ELSE proof_walk(rc, bits, i + 1, Append(proof_vec, lc.key))

\* MerkleTree::proof(&self, index)
MerkleTree_proof(tree, index) == proof_walk(tree.root, binary(index), 1, <<>>)

\* ------------------------------------------------------------------ verify
\* Mutant of loop_guard: the loop runs once more than the proof is long.
loop_guard_once_more(n, j, m) == n > 1 /\ j <= m + 1

\* while n > 1 && j <= m
loop_guard(n, j, m) == n > 1 /\ j <= m

\* One hashing step of verify: the running digest on the left for an even
\* position, on the right for an odd one.
combine(i, current, sibling) ==
    IF i % 2 = 0 THEN HashConcat(current, sibling) ELSE HashConcat(sibling, current)

\* Mutant of accept: the recomputed digest is not compared with the root.
accept_any_root(n, j, m, current, root) == n = 1 /\ j = m + 1

\* if n == 1 && j == m + 1 && current.eq(root)
accept(n, j, m, current, root) == n = 1 /\ j = m + 1 /\ current = root

\* The loop of verify from the state (n, i, j, current) on.  reads collects the
\* 0-based positions m - j the loop indexes proof with; a position outside
\* 0..m-1 panics.
RECURSIVE verify_loop(_, _, _, _, _, _)
verify_loop(proof_vec, n, i, j, current, reads) ==
    LET m == Len(proof_vec)
    IN  IF ~loop_guard(n, j, m)
        THEN [status |-> "returned", n |-> n, j |-> j, current |-> current, reads |-> reads]
        ELSE IF m - j < 0 \/ m - j >= m
             THEN [status |-> "panic", n |-> n, j |-> j, current |-> current,
                   reads |-> Append(reads, m - j)]
        ELSE verify_loop(proof_vec, n \div 2, i \div 2, j + 1,
                         combine(i, current, proof_vec[m - j + 1]),
                         Append(reads, m - j))

\* verify(root, datum, proof, index, leaf_size), as the record of the call.
verify(root, datum, proof_vec, index, leaf_size) ==
    LET end == verify_loop(proof_vec, leaf_size, index, 1, datum, <<>>)
        m == Len(proof_vec)
    IN  [root |-> root, datum |-> datum, proof_vec |-> proof_vec, index |-> index,
         leaf_size |-> leaf_size, status |-> end.status, reads |-> end.reads,
         n |-> end.n, j |-> end.j,
         result |-> (end.status = "returned" /\ accept(end.n, end.j, m, end.current, root))]

\* ------------------------------------------------------------------ state
VARIABLES
    data,        \* data[t]: None, or Some(slice) once MerkleTree::new was called with it
    trees,       \* trees[t]: None, or Some(tree) once MerkleTree::new returned
    rootCall,    \* the latest call of root: None or Some([tree, key])
    proofCall,   \* the latest call of proof: None or Some([tree, index, status, proof_vec])
    verifyCall,  \* the latest call of verify: None or Some(record of verify, with the tree it was about)
    abort        \* "none", or why the process stopped

vars == <<data, trees, rootCall, proofCall, verifyCall, abort>>

Init ==
    /\ data = [t \in TreeIds |-> None]
    /\ trees = [t \in TreeIds |-> None]
    /\ rootCall = None
    /\ proofCall = None
    /\ verifyCall = None
    /\ abort = "none"

\* let tree_t = MerkleTree::new(&dt);
New(t, dt) ==
    /\ abort = "none"
    /\ data[t] = None
    /\ data' = [data EXCEPT ![t] = Some(dt)]
    /\ LET r == MerkleTree_new(dt)
       IN  IF r = None
           THEN abort' = "stack overflow" /\ trees' = trees
           ELSE abort' = abort /\ trees' = [trees EXCEPT ![t] = r]
    /\ UNCHANGED <<rootCall, proofCall, verifyCall>>

\* tree_t.root()
Root(t) ==
    /\ abort = "none"
    /\ trees[t] # None
    /\ rootCall' = Some([tree |-> t, key |-> MerkleTree_root(trees[t][1])])
    /\ proofCall' = None
    /\ verifyCall' = None
    /\ UNCHANGED <<data, trees, abort>>

\* tree_t.proof(index)
Proof(t, index) ==
    /\ abort = "none"
    /\ trees[t] # None
    /\ LET r == MerkleTree_proof(trees[t][1], index)
       IN  /\ proofCall' = Some([tree |-> t, index |-> index, status |-> r.status,
                                 proof_vec |-> r.proof_vec])
           /\ abort' = IF r.status = "panic" THEN "panic" ELSE abort
    /\ rootCall' = None
    /\ verifyCall' = None
    /\ UNCHANGED <<data, trees>>

\* verify(&tree_t.root(), &data_t[index].hash(), &proof, index, data_t.len())
\* with the proof and the index of the latest call of proof.
VerifyProof(t) ==
    /\ abort = "none"
    /\ trees[t] # None
    /\ proofCall # None
    /\ proofCall[1].index < Len(data[t][1])
    /\ verifyCall' = Some([tree |-> t] @@
                          verify(MerkleTree_root(trees[t][1]),
                                 Hash(data[t][1][proofCall[1].index + 1]),
                                 proofCall[1].proof_vec,
                                 proofCall[1].index,
                                 Len(data[t][1])))
    /\ abort' = IF verifyCall'[1].status = "panic" THEN "panic" ELSE abort
    /\ UNCHANGED <<data, trees, rootCall, proofCall>>

\* Every key of the tree under node.
RECURSIVE Keys(_)
Keys(node) ==
    {node.key}
    \cup (IF node.left_child = None THEN {} ELSE Keys(node.left_child[1]))
    \cup (IF node.right_child = None THEN {} ELSE Keys(node.right_child[1]))

Next ==
    \/ \E t \in TreeIds, dt \in SeqsUpTo(Items, MaxLeaves) : New(t, dt)
    \/ \E t \in TreeIds : Root(t)
    \/ \E t \in TreeIds, index \in 0..MaxLeaves : Proof(t, index)
    \/ \E t \in TreeIds : VerifyProof(t)

Spec == Init /\ [][Next]_vars

\* The digests verify is driven with against tree t: every key of the tree and
\* the digest of every item.
DigestsOf(t) == Keys(trees[t][1].root) \cup {Hash(x) : x \in Items}

\* verify with inputs of the caller's choosing, once per run: the root of
\* tree t or a digest that is not its root, any digest as datum, any short
\* sequence of digests as proof, any index and any leaf_size.
VerifyAny(t) ==
    /\ abort = "none"
    /\ trees[t] # None
    /\ verifyCall = None
    /\ \E root \in {MerkleTree_root(trees[t][1]), Hash("a")},
          datum \in DigestsOf(t),
          proof_vec \in SeqsUpTo(DigestsOf(t), MaxProofLen),
          index \in 0..VerifyLeaves,
          leaf_size \in 0..VerifyLeaves :
          verifyCall' = Some([tree |-> t] @@
                             verify(root, datum, proof_vec, index, leaf_size))
    /\ abort' = IF verifyCall'[1].status = "panic" THEN "panic" ELSE abort
    /\ UNCHANGED <<data, trees, rootCall, proofCall>>

\* verify driven with free inputs against one tree.
NextVerify ==
    \/ \E dt \in SeqsUpTo(Items, VerifyLeaves) : New("A", dt)
    \/ VerifyAny("A")

SpecVerify == Init /\ [][NextVerify]_vars

\* ------------------------------------------------------------------ claims
\* The number of levels below node.
RECURSIVE Height(_)
Height(node) ==
    IF node.left_child = None THEN 0 ELSE 1 + Height(node.left_child[1])

RECURSIVE Pow2(_)
Pow2(k) == IF k = 0 THEN 1 ELSE 2 * Pow2(k - 1)

\* The keys of the siblings on the path from node down to its i-th leaf
\* (0-based, h levels below node), the sibling nearest to node first.
RECURSIVE SiblingPath(_, _, _)
SiblingPath(node, i, h) ==
    IF h = 0 THEN <<>>
    ELSE LET half == Pow2(h - 1)
             lc == node.left_child[1]
             rc == node.right_child[1]
         IN  IF i < half
             THEN <<rc.key>> \o SiblingPath(lc, i, h - 1)
             ELSE <<lc.key>> \o SiblingPath(rc, i - half, h - 1)

\* The number of nodes k levels above the leaves of a tree of n leaves.
RECURSIVE LevelSize(_, _)
LevelSize(n, k) == IF k = 0 THEN n ELSE (LevelSize(n, k - 1) + 1) \div 2

\* The last node d levels below node.
RECURSIVE RightSpine(_, _)
RightSpine(node, d) ==
    IF d = 0 THEN node ELSE RightSpine(node.right_child[1], d - 1)

\* Above every level of odd size, the last parent has two equal children.
OddLevelsDuplicate(tree, n) ==
    LET h == Height(tree.root)
    IN  \A k \in 0..(h - 1) :
            LevelSize(n, k) % 2 = 1 =>
                LET p == RightSpine(tree.root, h - k - 1)
                IN  p.left_child = p.right_child

Built(t) == trees[t] # None
Size(t) == Len(data[t][1])
RootNode(t) == trees[t][1].root

\* C1: for every non-empty slice and every index i below its length, verify
\* with the root of the tree, the digest of item i, the proof the tree returns
\* for i, i and the length returns true.
C1_InclusionSoundness ==
    (verifyCall # None /\ proofCall # None /\ verifyCall[1].tree = proofCall[1].tree)
        => verifyCall[1].result = TRUE

\* C2: for every tree of at least two leaves and every index i below the
\* number of leaves, proof(i) returns the keys of the siblings on the path from
\* the root to leaf i, root level first, one per level of the tree.
C2_ProofIsSiblingPath ==
    \A t \in TreeIds :
        (proofCall # None /\ proofCall[1].tree = t /\ Built(t)
            /\ Size(t) >= 2 /\ proofCall[1].index < Size(t))
        => /\ proofCall[1].status = "ok"
           /\ proofCall[1].proof_vec
                = SiblingPath(RootNode(t), proofCall[1].index, Height(RootNode(t)))

\* C3: on a tree of one leaf, proof(0) returns the empty sequence and does
\* not panic.
C3_SingleLeafProofEmpty ==
    \A t \in TreeIds :
        (proofCall # None /\ proofCall[1].tree = t /\ Built(t)
            /\ Size(t) = 1 /\ proofCall[1].index = 0)
        => /\ proofCall[1].status = "ok"
           /\ proofCall[1].proof_vec = <<>>

\* C4: proof(index) with index at or beyond the number of leaves fails; it
\* never returns a sequence of digests.  (Any failure is taken for the
\* out-of-range error here.)
C4_ProofIndexOutOfRange ==
    \A t \in TreeIds :
        (proofCall # None /\ proofCall[1].tree = t /\ Built(t)
            /\ proofCall[1].index >= Size(t))
        => proofCall[1].status # "ok"

\* C5: MerkleTree::new on the empty slice is rejected: it yields no tree and
\* does not recurse until the stack is exhausted.
C5_EmptyInputRejected ==
    \A t \in TreeIds :
        data[t] = Some(<<>>) => (trees[t] = None /\ abort # "stack overflow")

\* C6: verify is total: whatever the root, datum, proof, index and leaf_size,
\* it returns a boolean, and every position it reads proof at is one of
\* 0..len-1.
C6_VerifyTotal ==
    verifyCall # None =>
        /\ verifyCall[1].status = "returned"
        /\ verifyCall[1].result \in BOOLEAN
        /\ \A k \in 1..Len(verifyCall[1].reads) :
               /\ verifyCall[1].reads[k] >= 0
               /\ verifyCall[1].reads[k] < Len(verifyCall[1].proof_vec)

\* C6 witness: verify was handed an index at or beyond leaf_size and a
\* non-empty proof, read the proof, and returned false.
C6_Witness ==
    /\ verifyCall # None
    /\ verifyCall[1].index >= verifyCall[1].leaf_size
    /\ Len(verifyCall[1].proof_vec) = MaxProofLen
    /\ Len(verifyCall[1].reads) > 0
    /\ verifyCall[1].status = "returned"
    /\ verifyCall[1].result = FALSE

\* The latest verify took its root and datum from tree t and its proof from
\* tree u, another tree built from a different slice of the same length.
CrossTree(t, u) ==
    /\ verifyCall # None /\ proofCall # None
    /\ verifyCall[1].tree = t /\ proofCall[1].tree = u /\ t # u
    /\ Built(t) /\ Built(u)
    /\ Size(t) = Size(u)
    /\ data[t] # data[u]

\* C7 as stated: verify with the root and item i of one tree and the proof
\* another tree, built from a different slice of the same length, returns for
\* i, returns false.
C7_CrossTreeRejected ==
    \A t, u \in TreeIds : CrossTree(t, u) => verifyCall[1].result = FALSE

\* C7 amended: verify with the root and item i of one tree and the proof
\* another tree, built from a different slice of the same length, returns for
\* i, returns false whenever that proof is not the sequence of the keys of the
\* siblings on the first tree's path from the root to leaf i.
C7_CrossTreeRejectedUnlessSiblingPath ==
    \A t, u \in TreeIds :
        (CrossTree(t, u)
            /\ proofCall[1].proof_vec
                 # SiblingPath(RootNode(t), proofCall[1].index, Height(RootNode(t))))
        => verifyCall[1].result = FALSE

\* C7 witness: a proof of one tree that is not the sibling path of the other
\* was verified against the other's root and rejected.
C7_Witness ==
    \E t, u \in TreeIds :
        /\ CrossTree(t, u)
        /\ Size(t) >= 2
        /\ proofCall[1].proof_vec
             # SiblingPath(RootNode(t), proofCall[1].index, Height(RootNode(t)))
        /\ Len(proofCall[1].proof_vec) = Height(RootNode(t))
        /\ verifyCall[1].result = FALSE

\* Tree u was built from the slice of tree t, of odd length at least three,
\* with its last item appended once more, and root was called on u.
OddAndPadded(t, u) ==
    /\ rootCall # None /\ rootCall[1].tree = u
    /\ Built(t) /\ Built(u)
    /\ Size(t) >= 3 /\ Size(t) % 2 = 1
    /\ data[u][1] = Append(data[t][1], data[t][1][Size(t)])

\* C8: the root of a tree of odd length n >= 3 is the root of the tree built
\* from the same slice with its last item appended once more, and above every
\* level of odd size the last node is paired with a copy of itself.
C8_OddDuplication ==
    \A t, u \in TreeIds :
        OddAndPadded(t, u)
        => /\ rootCall[1].key = MerkleTree_root(trees[t][1])
           /\ OddLevelsDuplicate(trees[t][1], Size(t))

\* C8 witness: a slice of odd length holding different items and the slice
\* padded with its last item were both built, and root of the padded one
\* returned the root of the other.
C8_Witness ==
    \E t, u \in TreeIds :
        /\ OddAndPadded(t, u)
        /\ Height(RootNode(t)) >= 2
        /\ data[t][1][1] # data[t][1][Size(t)]
        /\ rootCall[1].key = MerkleTree_root(trees[t][1])

\* C9: the number of proof elements verify consumes to reach n == 1 for
\* leaf_size n is the height of the tree build makes of n leaves.
C9_HeightsAgree ==
    \A t \in TreeIds :
        (verifyCall # None /\ verifyCall[1].tree = t /\ Built(t)
            /\ verifyCall[1].leaf_size = Size(t)
            /\ verifyCall[1].status = "returned"
            /\ verifyCall[1].n = 1
            /\ verifyCall[1].j = Len(verifyCall[1].proof_vec) + 1)
        => Len(verifyCall[1].proof_vec) = Height(RootNode(t))

\* C10: if verify with the root of a tree of n leaves, a digest d, a proof, an
\* index i < n and n returns true, then d is the key of leaf i of the tree.
C10_NoFalseAcceptance ==
    \A t \in TreeIds :
        (verifyCall # None /\ verifyCall[1].tree = t /\ Built(t)
            /\ verifyCall[1].root = MerkleTree_root(trees[t][1])
            /\ verifyCall[1].leaf_size = Size(t)
            /\ verifyCall[1].index < Size(t)
            /\ verifyCall[1].result = TRUE)
        => verifyCall[1].datum = Hash(data[t][1][verifyCall[1].index + 1])

====
